---- MODULE Spec2Model ----
(***************************************************************************)
(* Model of the order-assistant back end: the rule-based chat responder    *)
(* (generateChatbotResponse) and the Express routes around it.             *)
(*                                                                         *)
(* Strings that the classifier inspects are sequences of one-character     *)
(* strings, so that toLowerCase, trim and includes are computed character  *)
(* by character.  The canned reply texts are kept as atomic strings (the   *)
(* emoji and bullet glyphs of the source are left out of the literals).    *)
(***************************************************************************)
EXTENDS Integers, Sequences, FiniteSets, TLC

VARIABLES
    utterance,     \* classifier harness: the message argument of a direct call
    typed,         \* classifier harness: number of fragments put into utterance
    callerId,      \* classifier harness: the userId argument of a direct call
    botResponse,   \* classifier harness: the value the call returned, or NoReply
    users,         \* routes/auth: const users = new Map(), email -> user
    mockOrders,    \* routes/orders: const mockOrders = new Map(), id -> order
    chatHits,      \* chatRateLimit: requests counted per IP in the current window
    now,           \* the clock read by Date.now() and new Date()
    issued,        \* the tokens signed with JWT_SECRET so far
    reqs           \* one frame per request being served: locals and response

classifierVars == <<utterance, typed, callerId, botResponse>>
serverVars == <<users, mockOrders, chatHits, now, issued, reqs>>
vars == <<utterance, typed, callerId, botResponse,
          users, mockOrders, chatHits, now, issued, reqs>>

None == "none"

\* placeholder held where a call has not returned yet
NoReply == [intent |-> None, message |-> None, suggestions |-> <<>>]

----------------------------------------------------------------------------
(* Characters and string primitives of String.prototype                   *)

UpperCase == <<"A", "B", "C", "D", "E", "F", "G", "H", "I", "J", "K", "L", "M", "N", "O", "P", "Q", "R", "S", "T", "U", "V", "W", "X", "Y", "Z">>
LowerCase == <<"a", "b", "c", "d", "e", "f", "g", "h", "i", "j", "k", "l", "m", "n", "o", "p", "q", "r", "s", "t", "u", "v", "w", "x", "y", "z">>

WhiteSpace == {" ", "\t", "\n", "\r"}

\* one character of String.prototype.toLowerCase
toLowerChar(c) ==
    IF \E i \in 1..Len(UpperCase) : UpperCase[i] = c
    THEN LowerCase[CHOOSE i \in 1..Len(UpperCase) : UpperCase[i] = c]
    ELSE c

\* String.prototype.toLowerCase
toLowerCase(s) == [i \in 1..Len(s) |-> toLowerChar(s[i])]

\* String.prototype.trim: drop white space at both ends
trim(s) ==
    LET keep  == {i \in 1..Len(s) : s[i] \notin WhiteSpace}
        first == CHOOSE i \in keep : \A j \in keep : i <= j
        last  == CHOOSE i \in keep : \A j \in keep : j <= i
    IN  IF keep = {} THEN <<>> ELSE SubSeq(s, first, last)

\* String.prototype.includes: k occurs in s as a contiguous substring
includes(s, k) ==
    \E i \in 0..(Len(s) - Len(k)) : SubSeq(s, i + 1, i + Len(k)) = k

----------------------------------------------------------------------------
(* Keywords tested by the responder                                        *)

K_order == <<"o", "r", "d", "e", "r">>
K_status == <<"s", "t", "a", "t", "u", "s">>
K_hash == <<"#">>
K_details == <<"d", "e", "t", "a", "i", "l", "s">>
K_shipping == <<"s", "h", "i", "p", "p", "i", "n", "g">>
K_delivery == <<"d", "e", "l", "i", "v", "e", "r", "y">>
K_track == <<"t", "r", "a", "c", "k">>
K_return == <<"r", "e", "t", "u", "r", "n">>
K_refund == <<"r", "e", "f", "u", "n", "d">>
K_hello == <<"h", "e", "l", "l", "o">>
K_hi == <<"h", "i">>
K_hey == <<"h", "e", "y">>
K_help == <<"h", "e", "l", "p">>
K_what_can_you_do == <<"w", "h", "a", "t", " ", "c", "a", "n", " ", "y", "o", "u", " ", "d", "o">>

----------------------------------------------------------------------------
(* The canned replies, one per return statement of the responder           *)

OrderStatusReply ==
    [intent |-> "order_status",
     message |-> "I can help you check your order status! Could you please provide your order number? It usually starts with # followed by numbers.",
     suggestions |-> <<"Check order #12345", "My recent orders", "Help with orders">>]

OrderDetailsReply ==
    [intent |-> "order_details",
     message |-> "I can show you detailed information about your order. Please share your order number so I can look it up for you.",
     suggestions |-> <<"Order #12345 details", "What did I order?", "Order summary">>]

ShippingReply ==
    [intent |-> "shipping_info",
     message |-> "I can help you with shipping and delivery information! Please provide your order number to get tracking details.",
     suggestions |-> <<"Track order #12345", "Delivery time", "Shipping options">>]

ReturnReply ==
    [intent |-> "return_request",
     message |-> "I can help you with returns and refunds. Our return policy allows returns within 30 days. What would you like to return?",
     suggestions |-> <<"Return policy", "Start a return", "Refund status">>]

GreetingReply ==
    [intent |-> "greeting",
     message |-> "Hello! I'm your order assistant. I can help you with order status, shipping information, returns, and more. How can I assist you today?",
     suggestions |-> <<"Check order status", "Track my package", "Return an item", "Help">>]

HelpReply ==
    [intent |-> "help",
     message |-> "I'm here to help with your orders! I can:\n\n* Check order status and details\n* Provide shipping and tracking information\n* Help with returns and refunds\n* Answer questions about our policies\n\nJust ask me about any of these topics!",
     suggestions |-> <<"Check order status", "Shipping info", "Return policy", "Track package">>]

UnknownReply ==
    [intent |-> "unknown",
     message |-> "I'm not sure I understand. I specialize in helping with orders, shipping, and returns. Could you please rephrase your question or ask me about:\n\n* Order status\n* Tracking information\n* Returns and refunds\n* General help",
     suggestions |-> <<"Check order status", "Help", "What can you do?", "Track my order">>]

----------------------------------------------------------------------------
(* generateChatbotResponse(message, userId)                                *)

\* the condition of each if statement, on the lower-cased, trimmed text
matchesOrderStatus(lowerMessage) ==
    includes(lowerMessage, K_order)
      /\ (includes(lowerMessage, K_status) \/ includes(lowerMessage, K_hash))

matchesOrderDetails(lowerMessage) ==
    includes(lowerMessage, K_order) /\ includes(lowerMessage, K_details)

matchesShipping(lowerMessage) ==
    includes(lowerMessage, K_shipping) \/ includes(lowerMessage, K_delivery)
      \/ includes(lowerMessage, K_track)

matchesReturn(lowerMessage) ==
    includes(lowerMessage, K_return) \/ includes(lowerMessage, K_refund)

matchesGreeting(lowerMessage) ==
    includes(lowerMessage, K_hello) \/ includes(lowerMessage, K_hi)
      \/ includes(lowerMessage, K_hey)

matchesHelp(lowerMessage) ==
    includes(lowerMessage, K_help) \/ includes(lowerMessage, K_what_can_you_do)

\* variant: the help rule is tested before the greeting rule
generateChatbotResponse_HelpFirst(message, userId) ==
    LET lowerMessage == trim(toLowerCase(message)) IN
    IF matchesOrderStatus(lowerMessage) THEN OrderStatusReply
    ELSE IF matchesOrderDetails(lowerMessage) THEN OrderDetailsReply
    ELSE IF matchesShipping(lowerMessage) THEN ShippingReply
    ELSE IF matchesReturn(lowerMessage) THEN ReturnReply
    ELSE IF matchesHelp(lowerMessage) THEN HelpReply
    ELSE IF matchesGreeting(lowerMessage) THEN GreetingReply
    ELSE UnknownReply

\* variant: the fallback is labelled 'default' instead of 'unknown'
generateChatbotResponse_DefaultLabel(message, userId) ==
    LET lowerMessage == trim(toLowerCase(message)) IN
    IF matchesOrderStatus(lowerMessage) THEN OrderStatusReply
    ELSE IF matchesOrderDetails(lowerMessage) THEN OrderDetailsReply
    ELSE IF matchesShipping(lowerMessage) THEN ShippingReply
    ELSE IF matchesReturn(lowerMessage) THEN ReturnReply
    ELSE IF matchesGreeting(lowerMessage) THEN GreetingReply
    ELSE IF matchesHelp(lowerMessage) THEN HelpReply
    ELSE [UnknownReply EXCEPT !.intent = "default"]

\* variant: the order-status rule looks for 'status' in the raw message
generateChatbotResponse_RawStatus(message, userId) ==
    LET lowerMessage == trim(toLowerCase(message)) IN
    IF includes(lowerMessage, K_order)
         /\ (includes(message, K_status) \/ includes(lowerMessage, K_hash))
    THEN OrderStatusReply
    ELSE IF matchesOrderDetails(lowerMessage) THEN OrderDetailsReply
    ELSE IF matchesShipping(lowerMessage) THEN ShippingReply
    ELSE IF matchesReturn(lowerMessage) THEN ReturnReply
    ELSE IF matchesGreeting(lowerMessage) THEN GreetingReply
    ELSE IF matchesHelp(lowerMessage) THEN HelpReply
    ELSE UnknownReply

\* variant: the order-details rule is tested before the order-status rule
generateChatbotResponse_DetailsFirst(message, userId) ==
    LET lowerMessage == trim(toLowerCase(message)) IN
    IF matchesOrderDetails(lowerMessage) THEN OrderDetailsReply
    ELSE IF matchesOrderStatus(lowerMessage) THEN OrderStatusReply
    ELSE IF matchesShipping(lowerMessage) THEN ShippingReply
    ELSE IF matchesReturn(lowerMessage) THEN ReturnReply
    ELSE IF matchesGreeting(lowerMessage) THEN GreetingReply
    ELSE IF matchesHelp(lowerMessage) THEN HelpReply
    ELSE UnknownReply

\* variant: the return rule is tested first
generateChatbotResponse_ReturnFirst(message, userId) ==
    LET lowerMessage == trim(toLowerCase(message)) IN
    IF matchesReturn(lowerMessage) THEN ReturnReply
    ELSE IF matchesOrderStatus(lowerMessage) THEN OrderStatusReply
    ELSE IF matchesOrderDetails(lowerMessage) THEN OrderDetailsReply
    ELSE IF matchesShipping(lowerMessage) THEN ShippingReply
    ELSE IF matchesGreeting(lowerMessage) THEN GreetingReply
    ELSE IF matchesHelp(lowerMessage) THEN HelpReply
    ELSE UnknownReply

\* variant: the help rule looks at the raw message
generateChatbotResponse_RawHelp(message, userId) ==
    LET lowerMessage == trim(toLowerCase(message)) IN
    IF matchesOrderStatus(lowerMessage) THEN OrderStatusReply
    ELSE IF matchesOrderDetails(lowerMessage) THEN OrderDetailsReply
    ELSE IF matchesShipping(lowerMessage) THEN ShippingReply
    ELSE IF matchesReturn(lowerMessage) THEN ReturnReply
    ELSE IF matchesGreeting(lowerMessage) THEN GreetingReply
    ELSE IF matchesHelp(message) THEN HelpReply
    ELSE UnknownReply

\* variant: the order-status reply is worded after what the user typed
generateChatbotResponse_Worded(message, userId) ==
    LET lowerMessage == trim(toLowerCase(message)) IN
    IF matchesOrderStatus(lowerMessage)
    THEN IF includes(lowerMessage, K_hash)
         THEN [OrderStatusReply EXCEPT !.message = "Let me look up that order number for you."]
         ELSE OrderStatusReply
    ELSE IF matchesOrderDetails(lowerMessage) THEN OrderDetailsReply
    ELSE IF matchesShipping(lowerMessage) THEN ShippingReply
    ELSE IF matchesReturn(lowerMessage) THEN ReturnReply
    ELSE IF matchesGreeting(lowerMessage) THEN GreetingReply
    ELSE IF matchesHelp(lowerMessage) THEN HelpReply
    ELSE UnknownReply

\* variant: the reply is personalised for one user
generateChatbotResponse_PerUser(message, userId) ==
    LET lowerMessage == trim(toLowerCase(message)) IN
    IF matchesOrderStatus(lowerMessage)
    THEN IF userId = "1"
         THEN [OrderStatusReply EXCEPT !.suggestions = <<"Check order #12345", "Check order #67890">>]
         ELSE OrderStatusReply
    ELSE IF matchesOrderDetails(lowerMessage) THEN OrderDetailsReply
    ELSE IF matchesShipping(lowerMessage) THEN ShippingReply
    ELSE IF matchesReturn(lowerMessage) THEN ReturnReply
    ELSE IF matchesGreeting(lowerMessage) THEN GreetingReply
    ELSE IF matchesHelp(lowerMessage) THEN HelpReply
    ELSE UnknownReply

generateChatbotResponse(message, userId) ==
    LET lowerMessage == trim(toLowerCase(message)) IN
    IF matchesOrderStatus(lowerMessage) THEN OrderStatusReply
    ELSE IF matchesOrderDetails(lowerMessage) THEN OrderDetailsReply
    ELSE IF matchesShipping(lowerMessage) THEN ShippingReply
    ELSE IF matchesReturn(lowerMessage) THEN ReturnReply
    ELSE IF matchesGreeting(lowerMessage) THEN GreetingReply
    ELSE IF matchesHelp(lowerMessage) THEN HelpReply
    ELSE UnknownReply

----------------------------------------------------------------------------
(* Tokens and the authentication middleware (middleware/auth.js)           *)

\* jwt.sign({ userId, email }, process.env.JWT_SECRET, ...)
jwtSign(userId, email) == [userId |-> userId, email |-> email, signature |-> "valid"]

\* the empty string left by authHeader.substring(7) of the header 'Bearer '
EmptyToken == [userId |-> None, email |-> None, signature |-> "empty"]

NoHeader == [scheme |-> None, token |-> EmptyToken]
Bearer(token) == [scheme |-> "Bearer ", token |-> token]

Reply(status, body) == [status |-> status, body |-> body]

\* variant: the token is decoded without its expiry being verified
authMiddleware_AcceptsExpired(authHeader) ==
    IF authHeader.scheme = None
    THEN [next |-> FALSE, user |-> [userId |-> None, email |-> None],
          res |-> Reply(401, [error |-> "Access denied", message |-> "No token provided"])]
    ELSE IF authHeader.scheme # "Bearer "
    THEN [next |-> FALSE, user |-> [userId |-> None, email |-> None],
          res |-> Reply(401, [error |-> "Access denied",
                              message |-> "Invalid token format. Expected: Bearer <token>"])]
    ELSE IF authHeader.token.signature = "empty"
    THEN [next |-> FALSE, user |-> [userId |-> None, email |-> None],
          res |-> Reply(401, [error |-> "Access denied", message |-> "No token provided"])]
    ELSE IF authHeader.token.signature \notin {"valid", "expired"}
    THEN [next |-> FALSE, user |-> [userId |-> None, email |-> None],
          res |-> Reply(401, [error |-> "Invalid token",
                              message |-> "The provided token is invalid"])]
    ELSE [next |-> TRUE,
          user |-> [userId |-> authHeader.token.userId, email |-> authHeader.token.email],
          res |-> Reply(0, [error |-> None, message |-> None])]

\* authMiddleware(req, res, next): either next() with req.user, or a 401
authMiddleware(authHeader) ==
    IF authHeader.scheme = None
    THEN [next |-> FALSE, user |-> [userId |-> None, email |-> None],
          res |-> Reply(401, [error |-> "Access denied", message |-> "No token provided"])]
    ELSE IF authHeader.scheme # "Bearer "
    THEN [next |-> FALSE, user |-> [userId |-> None, email |-> None],
          res |-> Reply(401, [error |-> "Access denied",
                              message |-> "Invalid token format. Expected: Bearer <token>"])]
    ELSE IF authHeader.token.signature = "empty"
    THEN [next |-> FALSE, user |-> [userId |-> None, email |-> None],
          res |-> Reply(401, [error |-> "Access denied", message |-> "No token provided"])]
    ELSE IF authHeader.token.signature = "expired"
    THEN [next |-> FALSE, user |-> [userId |-> None, email |-> None],
          res |-> Reply(401, [error |-> "Token expired",
                              message |-> "Your session has expired. Please login again."])]
    ELSE IF authHeader.token.signature # "valid"
    THEN [next |-> FALSE, user |-> [userId |-> None, email |-> None],
          res |-> Reply(401, [error |-> "Invalid token",
                              message |-> "The provided token is invalid"])]
    ELSE [next |-> TRUE,
          user |-> [userId |-> authHeader.token.userId, email |-> authHeader.token.email],
          res |-> Reply(0, [error |-> None, message |-> None])]

----------------------------------------------------------------------------
(* Request frames                                                          *)

Idle == [kind |-> "idle", pc |-> "idle"]

\* a request whose response has been written
Responded(kind, req, res) == [kind |-> kind, pc |-> "done", req |-> req, res |-> res]

ValidationFailed(fields) ==
    Reply(400, [error |-> "Validation failed", details |-> fields])

----------------------------------------------------------------------------
(* Chat routes (routes/chat)                                               *)

ChatRateMax == 10

RateLimited ==
    Reply(429, [error |-> "Too many chat requests, please wait before sending another message."])

MaxMessageLength == 1000

\* the values crypto.randomUUID() can return
RandomUUIDs == {"9f1c2b7e-8a4d-4c3b-9e2f-5d6a7b8c9d0e"}

\* isUUID(): the session ids of well-formed shape
UUIDs == {"11111111-1111-4111-8111-111111111111"} \cup RandomUUIDs

\* variant: the message is only required to be non-empty
chatValidationErrors_NoMax(message, sessionId) ==
    (IF Len(message) >= 1 THEN {} ELSE {"message"})
      \cup (IF sessionId = None \/ sessionId \in UUIDs THEN {} ELSE {"sessionId"})

\* validateChatMessage: the fields in error; message is the trimmed message
chatValidationErrors(message, sessionId) ==
    (IF Len(message) >= 1 /\ Len(message) <= MaxMessageLength THEN {} ELSE {"message"})
      \cup (IF sessionId = None \/ sessionId \in UUIDs THEN {} ELSE {"sessionId"})

\* chatRateLimit: count the request; the counter stops one above the maximum
countHit(hits, ip) ==
    [hits EXCEPT ![ip] = IF @ > ChatRateMax THEN @ ELSE @ + 1]

\* variant: the handler takes a fresh session id whatever the body holds
ChatPost_FreshSession(r, authHeader, ip, body) ==
    LET auth    == authMiddleware(authHeader)
        req     == [authorization |-> authHeader, ip |-> ip, body |-> body]
        message == trim(body.message)
        errors  == chatValidationErrors(message, body.sessionId)
    IN
    /\ reqs[r] = Idle
    /\ IF ~auth.next
       THEN /\ reqs' = [reqs EXCEPT ![r] = Responded("chat", req, auth.res)]
            /\ UNCHANGED chatHits
       ELSE /\ chatHits' = countHit(chatHits, ip)
            /\ IF chatHits'[ip] > ChatRateMax
               THEN reqs' = [reqs EXCEPT ![r] = Responded("chat", req, RateLimited)]
               ELSE IF errors # {}
               THEN reqs' = [reqs EXCEPT ![r] = Responded("chat", req, ValidationFailed(errors))]
               ELSE \E uuid \in RandomUUIDs :
                      reqs' = [reqs EXCEPT ![r] =
                                 [kind |-> "chat", pc |-> "await", req |-> req,
                                  message |-> message,
                                  userId |-> auth.user.userId,
                                  currentSessionId |-> uuid,
                                  botResponse |->
                                      generateChatbotResponse(message, auth.user.userId)]]
    /\ UNCHANGED <<users, mockOrders, now, issued>>

\* variant: validateChatMessage is mounted before chatRateLimit, so that a
\* request failing validation is answered 400 and is not counted
ChatPost_ValidateFirst(r, authHeader, ip, body) ==
    LET auth    == authMiddleware(authHeader)
        req     == [authorization |-> authHeader, ip |-> ip, body |-> body]
        message == trim(body.message)
        errors  == chatValidationErrors(message, body.sessionId)
    IN
    /\ reqs[r] = Idle
    /\ IF ~auth.next
       THEN /\ reqs' = [reqs EXCEPT ![r] = Responded("chat", req, auth.res)]
            /\ UNCHANGED chatHits
       ELSE IF errors # {}
       THEN /\ reqs' = [reqs EXCEPT ![r] = Responded("chat", req, ValidationFailed(errors))]
            /\ UNCHANGED chatHits
       ELSE /\ chatHits' = countHit(chatHits, ip)
            /\ IF chatHits'[ip] > ChatRateMax
               THEN reqs' = [reqs EXCEPT ![r] = Responded("chat", req, RateLimited)]
               ELSE \E uuid \in RandomUUIDs :
                      reqs' = [reqs EXCEPT ![r] =
                                 [kind |-> "chat", pc |-> "await", req |-> req,
                                  message |-> message,
                                  userId |-> auth.user.userId,
                                  currentSessionId |->
                                      IF body.sessionId # None THEN body.sessionId ELSE uuid,
                                  botResponse |->
                                      generateChatbotResponse(message, auth.user.userId)]]
    /\ UNCHANGED <<users, mockOrders, now, issued>>

\* router.post('/'), up to the await: authMiddleware, chatRateLimit,
\* validateChatMessage, then the handler as far as the classifier's promise
ChatPost(r, authHeader, ip, body) ==
    LET auth    == authMiddleware(authHeader)
        req     == [authorization |-> authHeader, ip |-> ip, body |-> body]
        message == trim(body.message)
        errors  == chatValidationErrors(message, body.sessionId)
    IN
    /\ reqs[r] = Idle
    /\ IF ~auth.next
       THEN /\ reqs' = [reqs EXCEPT ![r] = Responded("chat", req, auth.res)]
            /\ UNCHANGED chatHits
       ELSE /\ chatHits' = countHit(chatHits, ip)
            /\ IF chatHits'[ip] > ChatRateMax
               THEN reqs' = [reqs EXCEPT ![r] = Responded("chat", req, RateLimited)]
               ELSE IF errors # {}
               THEN reqs' = [reqs EXCEPT ![r] = Responded("chat", req, ValidationFailed(errors))]
               ELSE \E uuid \in RandomUUIDs :
                      reqs' = [reqs EXCEPT ![r] =
                                 [kind |-> "chat", pc |-> "await", req |-> req,
                                  message |-> message,
                                  userId |-> auth.user.userId,
                                  currentSessionId |->
                                      IF body.sessionId # None THEN body.sessionId ELSE uuid,
                                  botResponse |->
                                      generateChatbotResponse(message, auth.user.userId)]]
    /\ UNCHANGED <<users, mockOrders, now, issued>>

\* variant: the response is built from the frame of whichever request
\* called the classifier last
ChatResume_SharedResponse(r) ==
    /\ reqs[r].kind = "chat" /\ reqs[r].pc = "await"
    /\ \E o \in DOMAIN reqs :
         /\ reqs[o].kind = "chat" /\ reqs[o].pc = "await"
         /\ reqs' = [reqs EXCEPT ![r] =
                Responded("chat", reqs[r].req,
                    Reply(200, [sessionId |-> reqs[o].currentSessionId,
                                message |-> reqs[o].botResponse.message,
                                intent |-> reqs[o].botResponse.intent,
                                suggestions |-> reqs[o].botResponse.suggestions,
                                timestamp |-> now]))]
    /\ UNCHANGED <<users, mockOrders, chatHits, now, issued>>

\* variant: the conversation entry is kept with the sender's user record
ChatResume_KeepsEntry(r) ==
    /\ reqs[r].kind = "chat" /\ reqs[r].pc = "await"
    /\ reqs' = [reqs EXCEPT ![r] =
           Responded("chat", reqs[r].req,
               Reply(200, [sessionId |-> reqs[r].currentSessionId,
                           message |-> reqs[r].botResponse.message,
                           intent |-> reqs[r].botResponse.intent,
                           suggestions |-> reqs[r].botResponse.suggestions,
                           timestamp |-> now]))]
    /\ users' = [e \in DOMAIN users |->
                   IF users[e].id = reqs[r].userId
                   THEN [users[e] EXCEPT !.name = reqs[r].message]
                   ELSE users[e]]
    /\ UNCHANGED <<mockOrders, chatHits, now, issued>>

\* router.post('/'), after the await: conversationEntry is built and
\* dropped, the response is written
ChatResume(r) ==
    /\ reqs[r].kind = "chat" /\ reqs[r].pc = "await"
    /\ LET conversationEntry ==
               [sessionId |-> reqs[r].currentSessionId,
                userId |-> reqs[r].userId,
                userMessage |-> reqs[r].message,
                botResponse |-> reqs[r].botResponse.message,
                timestamp |-> now,
                intent |-> reqs[r].botResponse.intent]
       IN  reqs' = [reqs EXCEPT ![r] =
               Responded("chat", reqs[r].req,
                   Reply(200, [sessionId |-> reqs[r].currentSessionId,
                               message |-> reqs[r].botResponse.message,
                               intent |-> reqs[r].botResponse.intent,
                               suggestions |-> reqs[r].botResponse.suggestions,
                               timestamp |-> now]))]
    /\ UNCHANGED <<users, mockOrders, chatHits, now, issued>>

\* the body GET /history answers with
historyBody(userId) ==
    [message |-> "Chat history endpoint - to be implemented with database",
     userId |-> userId]

\* what GET /history answers to a request arriving now: authMiddleware,
\* chatRateLimit, then the handler
historyResponse(authHeader, ip) ==
    LET auth == authMiddleware(authHeader) IN
    IF ~auth.next THEN auth.res
    ELSE IF countHit(chatHits, ip)[ip] > ChatRateMax THEN RateLimited
    ELSE Reply(200, historyBody(auth.user.userId))

\* router.get('/history') behind authMiddleware and chatRateLimit
ChatHistory(r, authHeader, ip) ==
    LET req == [authorization |-> authHeader, ip |-> ip] IN
    /\ reqs[r] = Idle
    /\ reqs' = [reqs EXCEPT ![r] = Responded("history", req, historyResponse(authHeader, ip))]
    /\ chatHits' = IF authMiddleware(authHeader).next THEN countHit(chatHits, ip) ELSE chatHits
    /\ UNCHANGED <<users, mockOrders, now, issued>>

\* the rate limiter's window (windowMs) ends: the counts start again
ChatWindowReset ==
    /\ \E ip \in DOMAIN chatHits : chatHits[ip] > 0
    /\ chatHits' = [ip \in DOMAIN chatHits |-> 0]
    /\ UNCHANGED <<users, mockOrders, now, issued, reqs>>

----------------------------------------------------------------------------
(* Authentication routes (routes/auth)                                     *)

\* the clock reading at process start, in a unit that fits the integers
Epoch == 1700000000

\* Date.now().toString()
dateNowString(t) == ToString(Epoch + t)

\* isEmail(): one '@' after a local part, a dot inside the domain, no blanks
isEmail(e) ==
    /\ Cardinality({i \in 1..Len(e) : e[i] = "@"}) = 1
    /\ \A i \in 1..Len(e) : e[i] \notin WhiteSpace
    /\ LET at == CHOOSE i \in 1..Len(e) : e[i] = "@"
       IN  at > 1 /\ \E j \in (at + 2)..(Len(e) - 1) : e[j] = "."

\* normalizeEmail(): the address in lower case
normalizeEmail(e) == toLowerCase(e)

\* bcrypt.hash(password, saltRounds): a digest that is not the password
\* (the random salt is left out: it is never observed)
bcryptHash(password) == [bcrypt |-> password]

\* bcrypt.compare(password, hash)
bcryptCompare(password, hash) == hash.bcrypt = password

\* validateRegister: the fields in error
registerValidationErrors(body) ==
    (IF isEmail(body.email) THEN {} ELSE {"email"})
      \cup (IF Len(body.password) >= 6 THEN {} ELSE {"password"})
      \cup (IF Len(trim(body.name)) >= 2 THEN {} ELSE {"name"})

\* validateLogin: the fields in error
loginValidationErrors(body) ==
    (IF isEmail(body.email) THEN {} ELSE {"email"})
      \cup (IF Len(body.password) >= 1 THEN {} ELSE {"password"})

publicUser(user) == [id |-> user.id, email |-> user.email, name |-> user.name]

\* router.post('/register'), up to the await of bcrypt.hash
RegisterPost(r, body) ==
    LET errors == registerValidationErrors(body)
        email  == normalizeEmail(body.email)
    IN
    /\ reqs[r] = Idle
    /\ IF errors # {}
       THEN reqs' = [reqs EXCEPT ![r] = Responded("register", body, ValidationFailed(errors))]
       ELSE IF email \in DOMAIN users
       THEN reqs' = [reqs EXCEPT ![r] =
               Responded("register", body,
                   Reply(409, [error |-> "User already exists",
                               message |-> "A user with this email already exists"]))]
       ELSE reqs' = [reqs EXCEPT ![r] =
               [kind |-> "register", pc |-> "hash", req |-> body,
                email |-> email, password |-> body.password, name |-> trim(body.name)]]
    /\ UNCHANGED <<users, mockOrders, chatHits, now, issued>>

\* router.post('/register'), after the await: store the user, sign a token
RegisterResume(r) ==
    /\ reqs[r].kind = "register" /\ reqs[r].pc = "hash"
    /\ LET user  == [id |-> dateNowString(now),
                     email |-> reqs[r].email,
                     name |-> reqs[r].name,
                     password |-> bcryptHash(reqs[r].password),
                     createdAt |-> now]
           token == jwtSign(user.id, user.email)
       IN  /\ users' = [e \in DOMAIN users \cup {user.email} |->
                          IF e = user.email THEN user ELSE users[e]]
           /\ issued' = issued \cup {token}
           /\ reqs' = [reqs EXCEPT ![r] =
                  Responded("register", reqs[r].req,
                      Reply(201, [message |-> "User registered successfully",
                                  user |-> publicUser(user),
                                  token |-> token]))]
    /\ UNCHANGED <<mockOrders, chatHits, now>>

LoginRejected ==
    Reply(401, [error |-> "Authentication failed", message |-> "Invalid email or password"])

\* router.post('/login'), up to the await of bcrypt.compare
LoginPost(r, body) ==
    LET errors == loginValidationErrors(body)
        email  == normalizeEmail(body.email)
    IN
    /\ reqs[r] = Idle
    /\ IF errors # {}
       THEN reqs' = [reqs EXCEPT ![r] = Responded("login", body, ValidationFailed(errors))]
       ELSE IF email \notin DOMAIN users
       THEN reqs' = [reqs EXCEPT ![r] = Responded("login", body, LoginRejected)]
       ELSE reqs' = [reqs EXCEPT ![r] =
               [kind |-> "login", pc |-> "compare", req |-> body,
                user |-> users[email], password |-> body.password]]
    /\ UNCHANGED <<users, mockOrders, chatHits, now, issued>>

\* variant: the token is signed without the password being compared
LoginResume_AnyPassword(r) ==
    /\ reqs[r].kind = "login" /\ reqs[r].pc = "compare"
    /\ LET user  == reqs[r].user
           token == jwtSign(user.id, user.email)
       IN  /\ issued' = issued \cup {token}
           /\ reqs' = [reqs EXCEPT ![r] =
                  Responded("login", reqs[r].req,
                      Reply(200, [message |-> "Login successful",
                                  user |-> publicUser(user),
                                  token |-> token]))]
    /\ UNCHANGED <<users, mockOrders, chatHits, now>>

\* router.post('/login'), after the await: reject, or sign a token
LoginResume(r) ==
    /\ reqs[r].kind = "login" /\ reqs[r].pc = "compare"
    /\ LET user  == reqs[r].user
           token == jwtSign(user.id, user.email)
       IN  IF ~bcryptCompare(reqs[r].password, user.password)
           THEN /\ reqs' = [reqs EXCEPT ![r] = Responded("login", reqs[r].req, LoginRejected)]
                /\ UNCHANGED issued
           ELSE /\ issued' = issued \cup {token}
                /\ reqs' = [reqs EXCEPT ![r] =
                       Responded("login", reqs[r].req,
                           Reply(200, [message |-> "Login successful",
                                       user |-> publicUser(user),
                                       token |-> token]))]
    /\ UNCHANGED <<users, mockOrders, chatHits, now>>

----------------------------------------------------------------------------
(* Order routes (routes/orders)                                            *)

S_123_Main_St == <<"1", "2", "3", " ", "M", "a", "i", "n", " ", "S", "t">>

Digits == {"0", "1", "2", "3", "4", "5", "6", "7", "8", "9"}

\* const mockOrders = new Map([...]); prices and totals are in cents
MockOrderData ==
    [o \in {"12345", "67890"} |->
       IF o = "12345"
       THEN [id |-> "12345", userId |-> "1", status |-> "shipped",
             items |-> <<[name |-> "Wireless Headphones", quantity |-> 1, price |-> 9999],
                         [name |-> "Phone Case", quantity |-> 2, price |-> 1599]>>,
             total |-> 13197,
             shippingAddress |-> [street |-> S_123_Main_St, city |-> "Anytown",
                                  state |-> "CA", zip |-> "12345"],
             trackingNumber |-> "TRK123456789",
             estimatedDelivery |-> "2024-01-15",
             createdAt |-> "2024-01-10T10:00:00Z"]
       ELSE [id |-> "67890", userId |-> "1", status |-> "processing",
             items |-> <<[name |-> "Laptop Stand", quantity |-> 1, price |-> 4999]>>,
             total |-> 4999,
             shippingAddress |-> [street |-> S_123_Main_St, city |-> "Anytown",
                                  state |-> "CA", zip |-> "12345"],
             trackingNumber |-> None,
             estimatedDelivery |-> "2024-01-20",
             createdAt |-> "2024-01-12T14:30:00Z"]]

\* street.replace(/\d+/, '***'): the first run of digits becomes '***'
maskStreet(street) ==
    LET digitAt == {i \in 1..Len(street) : street[i] \in Digits} IN
    IF digitAt = {} THEN street
    ELSE LET first == CHOOSE i \in digitAt : \A j \in digitAt : i <= j
             last  == CHOOSE i \in first..Len(street) :
                          /\ \A j \in first..i : street[j] \in Digits
                          /\ (i = Len(street) \/ street[i + 1] \notin Digits)
         IN  SubSeq(street, 1, first - 1) \o <<"*", "*", "*">>
               \o SubSeq(street, last + 1, Len(street))

\* the message is `Order ${orderId} does not exist`: the template and the
\* value put into it
OrderNotFound(orderId) ==
    Reply(404, [error |-> "Order not found",
                message |-> "Order ${orderId} does not exist", orderId |-> orderId])

OrderDenied ==
    Reply(403, [error |-> "Access denied", message |-> "You can only access your own orders"])

\* variant: the street is masked in the stored order, not in a copy
GetOrder_MasksInPlace(r, authHeader, orderId) ==
    LET auth  == authMiddleware(authHeader)
        req   == [authorization |-> authHeader, orderId |-> orderId]
        found == auth.next /\ orderId \in DOMAIN mockOrders
                   /\ mockOrders[orderId].userId = auth.user.userId
    IN
    /\ reqs[r] = Idle
    /\ mockOrders' = IF found
                     THEN [mockOrders EXCEPT
                             ![orderId].shippingAddress.street = maskStreet(@)]
                     ELSE mockOrders
    /\ reqs' = [reqs EXCEPT ![r] =
          Responded("order", req,
              IF ~auth.next THEN auth.res
              ELSE IF orderId \notin DOMAIN mockOrders THEN OrderNotFound(orderId)
              ELSE IF mockOrders[orderId].userId # auth.user.userId THEN OrderDenied
              ELSE Reply(200, [order |-> mockOrders'[orderId]]))]
    /\ UNCHANGED <<users, chatHits, now, issued>>

\* router.get('/:orderId') behind authMiddleware
GetOrder(r, authHeader, orderId) ==
    LET auth == authMiddleware(authHeader)
        req  == [authorization |-> authHeader, orderId |-> orderId]
    IN
    /\ reqs[r] = Idle
    /\ reqs' = [reqs EXCEPT ![r] =
          Responded("order", req,
              IF ~auth.next THEN auth.res
              ELSE IF orderId \notin DOMAIN mockOrders THEN OrderNotFound(orderId)
              ELSE IF mockOrders[orderId].userId # auth.user.userId THEN OrderDenied
              ELSE Reply(200,
                     [order |-> [mockOrders[orderId] EXCEPT
                         !.shippingAddress.street = maskStreet(@)]]))]
    /\ UNCHANGED <<users, mockOrders, chatHits, now, issued>>

\* router.get('/:orderId/status') behind authMiddleware
GetOrderStatus(r, authHeader, orderId) ==
    LET auth == authMiddleware(authHeader)
        req  == [authorization |-> authHeader, orderId |-> orderId]
    IN
    /\ reqs[r] = Idle
    /\ reqs' = [reqs EXCEPT ![r] =
          Responded("orderStatus", req,
              IF ~auth.next THEN auth.res
              ELSE IF orderId \notin DOMAIN mockOrders THEN OrderNotFound(orderId)
              ELSE IF mockOrders[orderId].userId # auth.user.userId THEN OrderDenied
              ELSE Reply(200,
                     [orderId |-> mockOrders[orderId].id,
                      status |-> mockOrders[orderId].status,
                      estimatedDelivery |-> mockOrders[orderId].estimatedDelivery,
                      trackingNumber |-> mockOrders[orderId].trackingNumber,
                      lastUpdated |-> now]))]
    /\ UNCHANGED <<users, mockOrders, chatHits, now, issued>>

\* variant: the shipping route answers without the ownership check
GetOrderShipping_NoOwnerCheck(r, authHeader, orderId) ==
    LET auth == authMiddleware(authHeader)
        req  == [authorization |-> authHeader, orderId |-> orderId]
    IN
    /\ reqs[r] = Idle
    /\ reqs' = [reqs EXCEPT ![r] =
          Responded("orderShipping", req,
              IF ~auth.next THEN auth.res
              ELSE IF orderId \notin DOMAIN mockOrders THEN OrderNotFound(orderId)
              ELSE Reply(200,
                     [orderId |-> mockOrders[orderId].id,
                      trackingNumber |-> mockOrders[orderId].trackingNumber,
                      carrier |-> IF mockOrders[orderId].trackingNumber # None
                                  THEN "FedEx" ELSE None,
                      status |-> mockOrders[orderId].status,
                      estimatedDelivery |-> mockOrders[orderId].estimatedDelivery,
                      shippingAddress |-> mockOrders[orderId].shippingAddress]))]
    /\ UNCHANGED <<users, mockOrders, chatHits, now, issued>>

\* router.get('/:orderId/shipping') behind authMiddleware
GetOrderShipping(r, authHeader, orderId) ==
    LET auth == authMiddleware(authHeader)
        req  == [authorization |-> authHeader, orderId |-> orderId]
    IN
    /\ reqs[r] = Idle
    /\ reqs' = [reqs EXCEPT ![r] =
          Responded("orderShipping", req,
              IF ~auth.next THEN auth.res
              ELSE IF orderId \notin DOMAIN mockOrders THEN OrderNotFound(orderId)
              ELSE IF mockOrders[orderId].userId # auth.user.userId THEN OrderDenied
              ELSE Reply(200,
                     [orderId |-> mockOrders[orderId].id,
                      trackingNumber |-> mockOrders[orderId].trackingNumber,
                      carrier |-> IF mockOrders[orderId].trackingNumber # None
                                  THEN "FedEx" ELSE None,
                      status |-> mockOrders[orderId].status,
                      estimatedDelivery |-> mockOrders[orderId].estimatedDelivery,
                      shippingAddress |-> mockOrders[orderId].shippingAddress]))]
    /\ UNCHANGED <<users, mockOrders, chatHits, now, issued>>

\* const canModify = order.status === 'pending' || order.status === 'processing'
canModify(order) == order.status = "pending" \/ order.status = "processing"

\* variant: a caller who owns no order is denied before the order is
\* looked up
GetOrderModifiable_OwnerFirst(r, authHeader, orderId) ==
    LET auth == authMiddleware(authHeader)
        req  == [authorization |-> authHeader, orderId |-> orderId]
    IN
    /\ reqs[r] = Idle
    /\ reqs' = [reqs EXCEPT ![r] =
          Responded("orderModifiable", req,
              IF ~auth.next THEN auth.res
              ELSE IF \A o \in DOMAIN mockOrders : mockOrders[o].userId # auth.user.userId
                   THEN OrderDenied
              ELSE IF orderId \notin DOMAIN mockOrders THEN OrderNotFound(orderId)
              ELSE IF mockOrders[orderId].userId # auth.user.userId THEN OrderDenied
              ELSE Reply(200,
                     [orderId |-> mockOrders[orderId].id,
                      canModify |-> canModify(mockOrders[orderId]),
                      reason |-> IF canModify(mockOrders[orderId])
                                 THEN "Order can be modified"
                                 ELSE "Order has already shipped and cannot be modified",
                      currentStatus |-> mockOrders[orderId].status]))]
    /\ UNCHANGED <<users, mockOrders, chatHits, now, issued>>

\* router.get('/:orderId/modifiable') behind authMiddleware
GetOrderModifiable(r, authHeader, orderId) ==
    LET auth == authMiddleware(authHeader)
        req  == [authorization |-> authHeader, orderId |-> orderId]
    IN
    /\ reqs[r] = Idle
    /\ reqs' = [reqs EXCEPT ![r] =
          Responded("orderModifiable", req,
              IF ~auth.next THEN auth.res
              ELSE IF orderId \notin DOMAIN mockOrders THEN OrderNotFound(orderId)
              ELSE IF mockOrders[orderId].userId # auth.user.userId THEN OrderDenied
              ELSE Reply(200,
                     [orderId |-> mockOrders[orderId].id,
                      canModify |-> canModify(mockOrders[orderId]),
                      reason |-> IF canModify(mockOrders[orderId])
                                 THEN "Order can be modified"
                                 ELSE "Order has already shipped and cannot be modified",
                      currentStatus |-> mockOrders[orderId].status]))]
    /\ UNCHANGED <<users, mockOrders, chatHits, now, issued>>

ModifyDenied ==
    Reply(403, [error |-> "Access denied", message |-> "You can only modify your own orders"])

CannotModify ==
    Reply(400, [error |-> "Cannot modify order",
                message |-> "This order has already shipped and cannot be modified"])

\* variant: the PUT route refuses delivered orders only
PutOrder_AcceptsShipped(r, authHeader, orderId) ==
    LET auth == authMiddleware(authHeader)
        req  == [authorization |-> authHeader, orderId |-> orderId]
    IN
    /\ reqs[r] = Idle
    /\ reqs' = [reqs EXCEPT ![r] =
          Responded("orderPut", req,
              IF ~auth.next THEN auth.res
              ELSE IF orderId \notin DOMAIN mockOrders THEN OrderNotFound(orderId)
              ELSE IF mockOrders[orderId].userId # auth.user.userId THEN ModifyDenied
              ELSE IF mockOrders[orderId].status = "delivered" THEN CannotModify
              ELSE Reply(200,
                     [message |-> "Order modification endpoint - to be implemented",
                      orderId |-> mockOrders[orderId].id,
                      note |-> "In a full implementation, this would handle order modifications"]))]
    /\ UNCHANGED <<users, mockOrders, chatHits, now, issued>>

\* router.put('/:orderId') behind authMiddleware
PutOrder(r, authHeader, orderId) ==
    LET auth == authMiddleware(authHeader)
        req  == [authorization |-> authHeader, orderId |-> orderId]
    IN
    /\ reqs[r] = Idle
    /\ reqs' = [reqs EXCEPT ![r] =
          Responded("orderPut", req,
              IF ~auth.next THEN auth.res
              ELSE IF orderId \notin DOMAIN mockOrders THEN OrderNotFound(orderId)
              ELSE IF mockOrders[orderId].userId # auth.user.userId THEN ModifyDenied
              ELSE IF ~canModify(mockOrders[orderId]) THEN CannotModify
              ELSE Reply(200,
                     [message |-> "Order modification endpoint - to be implemented",
                      orderId |-> mockOrders[orderId].id,
                      note |-> "In a full implementation, this would handle order modifications"]))]
    /\ UNCHANGED <<users, mockOrders, chatHits, now, issued>>

----------------------------------------------------------------------------
(* The environment: time passes, responses are delivered                   *)

MaxNow == 1

\* the clock advances
Tick ==
    /\ now < MaxNow
    /\ now' = now + 1
    /\ UNCHANGED <<users, mockOrders, chatHits, issued, reqs>>

\* the response has gone out and the request's frame is released
Finish(r) ==
    /\ reqs[r].pc = "done"
    /\ reqs' = [reqs EXCEPT ![r] = Idle]
    /\ UNCHANGED <<users, mockOrders, chatHits, now, issued>>

----------------------------------------------------------------------------
(* Texts that callers and clients send                                     *)

W_ORDER == <<"O", "R", "D", "E", "R">>
W_Status == <<"S", "t", "a", "t", "u", "s">>
W_HELP == <<"H", "E", "L", "P">>
W_Help_me == <<"H", "e", "l", "p", " ", "m", "e">>
W_12345 == <<"1", "2", "3", "4", "5">>
W_space == <<" ">>

\* whole sentences
E_hello_how_are_you ==
    <<"H", "e", "l", "l", "o", ",", " ", "h", "o", "w", " ", "a", "r", "e", " ", "y", "o", "u", "?">>
E_refund_for_order ==
    <<"I", " ", "w", "a", "n", "t", " ", "a", " ", "r", "e", "f", "u", "n", "d", " ", "f", "o", "r", " ", "o", "r", "d", "e", "r", " ", "#", "1", "2", "3", "4", "5">>
E_what_is_this ==
    <<"W", "h", "a", "t", " ", "i", "s", " ", "t", "h", "i", "s", "?">>

\* the example interactions of the README, under their headings
X_whats_the_status_of_order ==
    <<"W", "h", "a", "t", "'", "s", " ", "t", "h", "e", " ", "s", "t", "a", "t", "u", "s", " ", "o", "f", " ", "o", "r", "d", "e", "r", " ", "#", "1", "2", "3", "4", "5", "?">>
X_check_my_order ==
    <<"C", "h", "e", "c", "k", " ", "m", "y", " ", "o", "r", "d", "e", "r", " ", "6", "7", "8", "9", "0">>
X_where_is_my_package ==
    <<"W", "h", "e", "r", "e", " ", "i", "s", " ", "m", "y", " ", "p", "a", "c", "k", "a", "g", "e", "?">>
X_show_me_details_for_order ==
    <<"S", "h", "o", "w", " ", "m", "e", " ", "d", "e", "t", "a", "i", "l", "s", " ", "f", "o", "r", " ", "o", "r", "d", "e", "r", " ", "#", "1", "2", "3", "4", "5">>
X_what_did_i_order ==
    <<"W", "h", "a", "t", " ", "d", "i", "d", " ", "I", " ", "o", "r", "d", "e", "r", "?">>
X_order_summary_for ==
    <<"O", "r", "d", "e", "r", " ", "s", "u", "m", "m", "a", "r", "y", " ", "f", "o", "r", " ", "#", "6", "7", "8", "9", "0">>
X_when_will_my_order_arrive ==
    <<"W", "h", "e", "n", " ", "w", "i", "l", "l", " ", "m", "y", " ", "o", "r", "d", "e", "r", " ", "a", "r", "r", "i", "v", "e", "?">>
X_track_order ==
    <<"T", "r", "a", "c", "k", " ", "o", "r", "d", "e", "r", " ", "#", "1", "2", "3", "4", "5">>
X_delivery_information ==
    <<"D", "e", "l", "i", "v", "e", "r", "y", " ", "i", "n", "f", "o", "r", "m", "a", "t", "i", "o", "n">>
X_how_do_i_return_this_item ==
    <<"H", "o", "w", " ", "d", "o", " ", "I", " ", "r", "e", "t", "u", "r", "n", " ", "t", "h", "i", "s", " ", "i", "t", "e", "m", "?">>
X_refund_policy ==
    <<"R", "e", "f", "u", "n", "d", " ", "p", "o", "l", "i", "c", "y">>
X_start_a_return_for_order ==
    <<"S", "t", "a", "r", "t", " ", "a", " ", "r", "e", "t", "u", "r", "n", " ", "f", "o", "r", " ", "o", "r", "d", "e", "r", " ", "#", "1", "2", "3", "4", "5">>

ReadmeOrderStatus ==
    {X_whats_the_status_of_order, X_check_my_order, X_where_is_my_package}
ReadmeOrderDetails ==
    {X_show_me_details_for_order, X_what_did_i_order, X_order_summary_for}
ReadmeShipping ==
    {X_when_will_my_order_arrive, X_track_order, X_delivery_information}
ReadmeReturns ==
    {X_how_do_i_return_this_item, X_refund_policy, X_start_a_return_for_order}

ReadmeExamples == ReadmeOrderStatus \cup ReadmeOrderDetails \cup ReadmeShipping \cup ReadmeReturns

Examples == {E_hello_how_are_you, E_refund_for_order, E_what_is_this} \cup ReadmeExamples

\* the fragments utterances are built from: every keyword, mixed-case
\* spellings and white space
Vocabulary ==
    {K_order, K_status, K_hash, K_details, K_shipping, K_delivery, K_track,
     K_return, K_refund, K_hello, K_hi, K_hey, K_help, K_what_can_you_do,
     W_ORDER, W_Status, W_HELP, W_Help_me, W_space}

----------------------------------------------------------------------------
(* The server: state after the modules are loaded, and its requests        *)

ReqIds == {"r1", "r2"}

IPs == {"10.0.0.1"}

InitServer ==
    /\ users = <<>>
    /\ mockOrders = MockOrderData
    /\ chatHits = [ip \in IPs |-> 0]
    /\ now = 0
    /\ issued = {}
    /\ reqs = [r \in ReqIds |-> Idle]

A_email == <<"a", "@", "x", ".", "i", "o">>
A_Email == <<"A", "@", "x", ".", "i", "o">>
A_secret == <<"s", "e", "c", "r", "e", "t">>
A_passwd == <<"p", "a", "s", "s", "w", "d">>
A_short == <<"a", "b", "c">>
A_name == <<"A", "n", "n">>

\* a token of the customer the mock orders belong to, signed with
\* JWT_SECRET outside this process
CustomerToken == jwtSign("1", <<"c", "@", "x", ".", "i", "o">>)

\* the Authorization headers a client can send: a valid token is one that
\* was signed with the secret
AuthHeaders ==
    {NoHeader, Bearer(CustomerToken)} \cup {Bearer(t) : t \in issued}

ChatBodies ==
    {[message |-> E_refund_for_order, sessionId |-> None],
     [message |-> E_refund_for_order, sessionId |-> "11111111-1111-4111-8111-111111111111"],
     [message |-> W_space \o W_HELP \o W_space, sessionId |-> "11111111-1111-4111-8111-111111111111"],
     [message |-> W_space, sessionId |-> None]}

RegisterBodies ==
    [email : {A_Email}, password : {A_secret, A_short}, name : {A_name}]

LoginBodies ==
    [email : {A_email}, password : {A_secret, A_passwd}]

OrderIds == {"12345", "99999"}

Init ==
    /\ utterance = <<>>
    /\ typed = 0
    /\ callerId = "1"
    /\ botResponse = NoReply
    /\ InitServer

Next ==
    \/ \E r \in ReqIds, h \in AuthHeaders, ip \in IPs, b \in ChatBodies :
         ChatPost(r, h, ip, b) /\ UNCHANGED classifierVars
    \/ \E r \in ReqIds : ChatResume(r) /\ UNCHANGED classifierVars
    \/ \E r \in ReqIds, h \in AuthHeaders, ip \in IPs :
         ChatHistory(r, h, ip) /\ UNCHANGED classifierVars
    \/ ChatWindowReset /\ UNCHANGED classifierVars
    \/ \E r \in ReqIds, b \in RegisterBodies : RegisterPost(r, b) /\ UNCHANGED classifierVars
    \/ \E r \in ReqIds : RegisterResume(r) /\ UNCHANGED classifierVars
    \/ \E r \in ReqIds, b \in LoginBodies : LoginPost(r, b) /\ UNCHANGED classifierVars
    \/ \E r \in ReqIds : LoginResume(r) /\ UNCHANGED classifierVars
    \/ \E r \in ReqIds, h \in AuthHeaders, o \in OrderIds :
         GetOrder(r, h, o) /\ UNCHANGED classifierVars
    \/ \E r \in ReqIds, h \in AuthHeaders, o \in OrderIds :
         GetOrderStatus(r, h, o) /\ UNCHANGED classifierVars
    \/ Tick /\ UNCHANGED classifierVars
    \/ \E r \in ReqIds : Finish(r) /\ UNCHANGED classifierVars

Spec == Init /\ [][Next]_vars

----------------------------------------------------------------------------
(* Bounds and callers of the classifier harness                            *)

MaxWords == 3

UserIds == {"1", "1700000000001"}

----------------------------------------------------------------------------
(* Specification of direct calls of the classifier: a caller puts a text   *)
(* together from fragments, or takes a whole sentence, and calls           *)


InitClassify ==
    /\ utterance = <<>>
    /\ typed = 0
    /\ callerId \in UserIds
    /\ botResponse = NoReply
    /\ InitServer

\* the caller appends one fragment to the text
TypeWord(w) ==
    /\ botResponse = NoReply
    /\ typed < MaxWords
    /\ utterance' = utterance \o w
    /\ typed' = typed + 1
    /\ UNCHANGED <<callerId, botResponse>>
    /\ UNCHANGED serverVars

\* the caller takes a whole sentence as the text
TypeSentence(e) ==
    /\ botResponse = NoReply
    /\ typed = 0
    /\ utterance' = e
    /\ typed' = MaxWords
    /\ UNCHANGED <<callerId, botResponse>>
    /\ UNCHANGED serverVars

\* await generateChatbotResponse(message, userId)
CallClassifier ==
    /\ botResponse = NoReply
    /\ botResponse' = generateChatbotResponse(utterance, callerId)
    /\ UNCHANGED <<utterance, typed, callerId>>
    /\ UNCHANGED serverVars

NextClassify ==
    \/ \E w \in Vocabulary : TypeWord(w)
    \/ \E e \in Examples : TypeSentence(e)
    \/ CallClassifier

SpecClassify == InitClassify /\ [][NextClassify]_vars

----------------------------------------------------------------------------
(* The rule table as the specification states it (section 4.1)             *)

RuleOrder ==
    <<"order_status", "order_details", "shipping_info", "return_request",
      "greeting", "help">>

Intents == {RuleOrder[i] : i \in 1..Len(RuleOrder)} \cup {"unknown"}

\* the keyword predicate of a rule on a normalized text
RuleHolds(id, t) ==
    CASE id = "order_status"   -> includes(t, K_order)
                                    /\ (includes(t, K_status) \/ includes(t, K_hash))
      [] id = "order_details"  -> includes(t, K_order) /\ includes(t, K_details)
      [] id = "shipping_info"  -> \E k \in {K_shipping, K_delivery, K_track} : includes(t, k)
      [] id = "return_request" -> \E k \in {K_return, K_refund} : includes(t, k)
      [] id = "greeting"       -> \E k \in {K_hello, K_hi, K_hey} : includes(t, k)
      [] id = "help"           -> \E k \in {K_help, K_what_can_you_do} : includes(t, k)

RECURSIVE FirstMatch(_, _)
FirstMatch(i, t) ==
    IF i > Len(RuleOrder) THEN "unknown"
    ELSE IF RuleHolds(RuleOrder[i], t) THEN RuleOrder[i]
    ELSE FirstMatch(i + 1, t)

Normalized(u) == trim(toLowerCase(u))

Returned == botResponse # NoReply

----------------------------------------------------------------------------
(* Claims about direct calls of the classifier (SpecClassify)              *)

C2_Total ==
    /\ ~Returned => generateChatbotResponse(utterance, callerId).intent \in Intents
    /\ Returned => botResponse.intent \in Intents
    /\ Returned /\ trim(utterance) = <<>> => botResponse.intent = "unknown"

\* C2 witness: the call on the empty string returned
C2_Witness ==
    Returned /\ utterance = <<>> /\ botResponse.intent = "unknown"

\* C3: an utterance containing 'order' and 'status', in any letter case and
\* whatever else it contains, is classified order_status.
C3_OrderAndStatus ==
    Returned /\ includes(toLowerCase(utterance), K_order)
             /\ includes(toLowerCase(utterance), K_status)
      => botResponse.intent = "order_status"

\* C3 witness: 'order' and 'status' not in lower case, another rule's
\* keyword present as well
C3_Witness ==
    /\ Returned
    /\ includes(toLowerCase(utterance), K_order) /\ ~includes(utterance, K_order)
    /\ includes(toLowerCase(utterance), K_status) /\ ~includes(utterance, K_status)
    /\ RuleHolds("return_request", Normalized(utterance))
    /\ botResponse.intent = "order_status"

C7_CaseAndTrimInvariant ==
    Returned =>
      /\ botResponse = generateChatbotResponse(Normalized(utterance), callerId)
      /\ utterance \in {W_HELP, K_help, W_Help_me} => botResponse.intent = "help"

\* C7 witness: an utterance in upper case with white space around it
C7_Witness ==
    /\ Returned
    /\ utterance = W_space \o W_HELP \o W_space
    /\ botResponse.intent = "help"

\* C8: message and suggestions are a function of the intent alone: every
\* result equals the result of one fixed utterance of its intent, and is
\* one of the seven canned replies.
RepresentativeOf(intent) ==
    CASE intent = "order_status"   -> K_order \o W_space \o K_status
      [] intent = "order_details"  -> K_order \o W_space \o K_details
      [] intent = "shipping_info"  -> K_track
      [] intent = "return_request" -> K_refund
      [] intent = "greeting"       -> K_hello
      [] intent = "help"           -> K_help
      [] OTHER                     -> <<>>

CannedReplies ==
    {OrderStatusReply, OrderDetailsReply, ShippingReply, ReturnReply,
     GreetingReply, HelpReply, UnknownReply}

C8_ReplyFixedPerIntent ==
    Returned =>
      /\ botResponse = generateChatbotResponse(RepresentativeOf(botResponse.intent), callerId)
      /\ botResponse \in CannedReplies
      /\ \A a, b \in CannedReplies : a.intent = b.intent => a = b

\* C8 witness: an utterance carrying an order number was answered
C8_Witness ==
    /\ Returned
    /\ includes(utterance, W_12345) /\ includes(utterance, K_hash)
    /\ botResponse = OrderStatusReply

----------------------------------------------------------------------------
(* Claims about the chat route on the running server (Spec)                *)

\* a chat request whose classifier call has returned
ChatReplied(r) ==
    /\ reqs[r].kind = "chat"
    /\ \/ reqs[r].pc = "await"
       \/ reqs[r].pc = "done" /\ reqs[r].res.status = 200

\* intent, message and suggestions the request got
ChatReplyOf(r) ==
    IF reqs[r].pc = "await"
    THEN [intent |-> reqs[r].botResponse.intent,
          message |-> reqs[r].botResponse.message,
          suggestions |-> reqs[r].botResponse.suggestions]
    ELSE [intent |-> reqs[r].res.body.intent,
          message |-> reqs[r].res.body.message,
          suggestions |-> reqs[r].res.body.suggestions]

\* C6: classification is deterministic and history-independent: two chat
\* requests with the same message get the same intent, message and
\* suggestions, whoever sent them and whatever requests (register, login,
\* order lookups, other chat messages) the server processed in between.
C6_HistoryIndependent ==
    \A r1, r2 \in ReqIds :
        ChatReplied(r1) /\ ChatReplied(r2)
          /\ reqs[r1].req.body.message = reqs[r2].req.body.message
        => ChatReplyOf(r1) = ChatReplyOf(r2)

\* C6 witness: an answer given at time 0 and an answer to the same message
\* for a user who registered later
C6_Witness ==
    \E r1, r2 \in ReqIds :
        /\ reqs[r1].kind = "chat" /\ reqs[r1].pc = "done" /\ reqs[r1].res.status = 200
        /\ reqs[r1].res.body.timestamp = 0
        /\ reqs[r1].req.authorization = Bearer(CustomerToken)
        /\ reqs[r2].kind = "chat" /\ reqs[r2].pc = "await"
        /\ reqs[r2].userId = dateNowString(1)
        /\ reqs[r1].req.body.message = reqs[r2].req.body.message

\* a step of a chat request: it arrives, or it resumes and answers
ChatStep ==
    \E r \in ReqIds : reqs'[r] # reqs[r] /\ reqs'[r].kind = "chat"

\* a request that has been answered keeps its request and response only
NoEntryRetained ==
    \A r \in ReqIds : reqs[r].pc = "done" => DOMAIN reqs[r] = {"kind", "pc", "req", "res"}

\* what the handler of GET /history answers once the request has passed
\* the middleware
historyServed(userId) == Reply(200, historyBody(userId))

\* C9 as stated: a chat request leaves the users store and the order store
\* unchanged, retains no conversation entry, and GET /history answers the
\* same before and after it.
C9_Original ==
    [][ChatStep =>
          /\ users' = users /\ mockOrders' = mockOrders
          /\ NoEntryRetained'
          /\ \A ip \in IPs :
               historyResponse(Bearer(CustomerToken), ip)'
                 = historyResponse(Bearer(CustomerToken), ip)]_vars

\* C9 amended: a chat request changes no server state but the rate
\* limiter's count: the users store and the order store are unchanged, no
\* conversation entry is retained, and GET /history, whenever the rate
\* limiter lets it through, answers with the same body before and after.
C9_ChatHasNoSideEffect ==
    [][ChatStep =>
          /\ users' = users /\ mockOrders' = mockOrders
          /\ NoEntryRetained'
          /\ \A u \in UserIds : historyServed(u)' = historyServed(u)]_vars

\* C9 witness: a registered user's chat message was answered while the
\* users store holds that user
C9_Witness ==
    \E r \in ReqIds :
        /\ reqs[r].kind = "chat" /\ reqs[r].pc = "done" /\ reqs[r].res.status = 200
        /\ \E e \in DOMAIN users :
             reqs[r].req.authorization = Bearer(jwtSign(users[e].id, e))

\* C10: under any interleaving, the response of a chat request carries the
\* intent, message and suggestions the classifier returns for that
\* request's own message, and that request's session id.
C10_OwnResponse ==
    \A r \in ReqIds :
        reqs[r].kind = "chat" /\ reqs[r].pc = "done" /\ reqs[r].res.status = 200 =>
          LET own == generateChatbotResponse(reqs[r].req.body.message,
                                             reqs[r].req.authorization.token.userId)
          IN  /\ reqs[r].res.body.intent = own.intent
              /\ reqs[r].res.body.message = own.message
              /\ reqs[r].res.body.suggestions = own.suggestions
              /\ IF reqs[r].req.body.sessionId # None
                 THEN reqs[r].res.body.sessionId = reqs[r].req.body.sessionId
                 ELSE reqs[r].res.body.sessionId \in RandomUUIDs

\* C10 witness: a request was answered while another one, with another
\* message, another sender and another session, had been in progress
C10_Witness ==
    \E r1, r2 \in ReqIds :
        /\ reqs[r1].kind = "chat" /\ reqs[r1].pc = "done" /\ reqs[r1].res.status = 200
        /\ reqs[r2].kind = "chat" /\ reqs[r2].pc = "await"
        /\ reqs[r1].res.body.intent # reqs[r2].botResponse.intent
        /\ reqs[r1].res.body.sessionId # reqs[r2].currentSessionId
        /\ reqs[r1].req.authorization # reqs[r2].req.authorization

----------------------------------------------------------------------------
(* Specification of the guarded routes: one request at a time, from two    *)
(* addresses, with every kind of Authorization header                      *)

GateReqs == {"r1"}

GateIPs == {"10.0.0.1", "10.0.0.2"}

C_email == <<"c", "@", "x", ".", "i", "o">>
V_email == <<"v", "@", "x", ".", "i", "o">>

\* a token of another customer, signed with JWT_SECRET outside this process
VisitorToken == jwtSign("2", V_email)

\* a token whose exp has passed, and one signed with another secret
ExpiredToken == [userId |-> "1", email |-> C_email, signature |-> "expired"]
ForgedToken == [userId |-> "1", email |-> C_email, signature |-> "forged"]

\* an Authorization header of another scheme
BasicHeader == [scheme |-> "Basic ", token |-> CustomerToken]

GateHeaders ==
    {NoHeader, BasicHeader, Bearer(EmptyToken), Bearer(ExpiredToken),
     Bearer(ForgedToken), Bearer(CustomerToken), Bearer(VisitorToken)}

GateBodies ==
    ChatBodies \cup {[message |-> W_Help_me, sessionId |-> "not-a-uuid"],
                     [message |-> W_Help_me, sessionId |-> None]}

GateOrderIds == {"12345", "67890", "99999"}

InitGate ==
    /\ utterance = <<>>
    /\ typed = 0
    /\ callerId = "1"
    /\ botResponse = NoReply
    /\ users = <<>>
    /\ mockOrders = MockOrderData
    /\ chatHits = [ip \in GateIPs |-> 0]
    /\ now = 0
    /\ issued = {}
    /\ reqs = [r \in ReqIds |-> Idle]

NextGate ==
    \/ \E r \in GateReqs, h \in GateHeaders, ip \in GateIPs, b \in GateBodies :
         ChatPost(r, h, ip, b) /\ UNCHANGED classifierVars
    \/ \E r \in GateReqs : ChatResume(r) /\ UNCHANGED classifierVars
    \/ \E r \in GateReqs, h \in GateHeaders, ip \in GateIPs :
         ChatHistory(r, h, ip) /\ UNCHANGED classifierVars
    \/ ChatWindowReset /\ UNCHANGED classifierVars
    \/ \E r \in GateReqs, h \in GateHeaders, o \in GateOrderIds :
         GetOrder(r, h, o) /\ UNCHANGED classifierVars
    \/ \E r \in GateReqs, h \in GateHeaders, o \in GateOrderIds :
         GetOrderStatus(r, h, o) /\ UNCHANGED classifierVars
    \/ \E r \in GateReqs, h \in GateHeaders, o \in GateOrderIds :
         GetOrderShipping(r, h, o) /\ UNCHANGED classifierVars
    \/ \E r \in GateReqs, h \in GateHeaders, o \in GateOrderIds :
         GetOrderModifiable(r, h, o) /\ UNCHANGED classifierVars
    \/ \E r \in GateReqs, h \in GateHeaders, o \in GateOrderIds :
         PutOrder(r, h, o) /\ UNCHANGED classifierVars
    \/ \E r \in GateReqs : Finish(r) /\ UNCHANGED classifierVars

SpecGate == InitGate /\ [][NextGate]_vars

----------------------------------------------------------------------------
(* C11-C13: the guards in front of the chat and order handlers             *)

\* the header is present, starts with 'Bearer ', and carries a non-empty
\* token that jwt.verify accepts
Verified(h) == h.scheme = "Bearer " /\ h.token.signature = "valid"

GuardedKinds ==
    {"chat", "history", "order", "orderStatus", "orderShipping", "orderModifiable", "orderPut"}

OrderKinds == {"order", "orderStatus", "orderShipping", "orderModifiable", "orderPut"}

\* C11: for each request to a guarded route the middleware calls next()
\* with req.user taken from the token exactly when the header is present,
\* starts with 'Bearer ', has a non-empty token and the token verifies;
\* every other request is answered 401 by the middleware and goes no
\* further, so the classifier and the order handlers run only for
\* requests with a verified token.
C11_AuthGate ==
    \A r \in ReqIds :
       reqs[r].kind \in GuardedKinds =>
          LET f == reqs[r]
              h == f.req.authorization
              a == authMiddleware(h)
          IN  IF Verified(h)
              THEN /\ a.next
                   /\ a.user.userId = h.token.userId
                   /\ a.user.email = h.token.email
                   /\ f.pc = "done" => f.res.status # 401
                   /\ (f.kind = "chat" /\ f.pc = "await") => f.userId = h.token.userId
                   /\ (f.kind = "history" /\ f.res.status = 200)
                         => f.res.body.userId = h.token.userId
              ELSE /\ ~a.next
                   /\ f.pc = "done"
                   /\ f.res.status = 401
                   /\ f.res.body.error \in {"Access denied", "Token expired", "Invalid token"}

\* a verified request has passed the middleware (the limiter behind it
\* has counted it) and a request with an expired token sits answered
C11_Witness ==
    /\ \E ip \in DOMAIN chatHits : chatHits[ip] > 0
    /\ \E r \in ReqIds :
          /\ reqs[r].kind \in OrderKinds
          /\ reqs[r].req.authorization = Bearer(ExpiredToken)
          /\ reqs[r].res.status = 401

\* C12: every 200 response of POST /api/chat has exactly the fields
\* sessionId, message, intent, suggestions and timestamp; message, intent
\* and suggestions are the classifier's result for the trimmed message
\* that was sent, and sessionId is the one sent when one was sent and a
\* generated one otherwise.
C12_ChatResponseShape ==
    \A r \in ReqIds :
       (reqs[r].kind = "chat" /\ reqs[r].pc = "done" /\ reqs[r].res.status = 200) =>
          LET sent   == reqs[r].req.body
              body   == reqs[r].res.body
              result == generateChatbotResponse(trim(sent.message),
                                                reqs[r].req.authorization.token.userId)
          IN  /\ DOMAIN body = {"sessionId", "message", "intent", "suggestions", "timestamp"}
              /\ body.message = result.message
              /\ body.intent = result.intent
              /\ body.suggestions = result.suggestions
              /\ body.timestamp \in 0..now
              /\ IF sent.sessionId # None
                 THEN body.sessionId = sent.sessionId
                 ELSE body.sessionId \in RandomUUIDs

\* a 200 whose session id is the one the client sent, for a message with
\* white space around it
C12_Witness ==
    \E r \in ReqIds :
       /\ reqs[r].kind = "chat" /\ reqs[r].pc = "done" /\ reqs[r].res.status = 200
       /\ reqs[r].req.body.sessionId \in UUIDs \ RandomUUIDs
       /\ reqs[r].res.body.sessionId = reqs[r].req.body.sessionId
       /\ reqs[r].req.body.message # trim(reqs[r].req.body.message)
       /\ reqs[r].res.body.intent = "help"

\* a request to a chat route arrives in this step
ChatArrival(r) == reqs[r] = Idle /\ reqs'[r].kind \in {"chat", "history"}

\* the request that arrived was turned away by authMiddleware or by
\* chatRateLimit
TurnedAway(r) == reqs'[r].pc = "done" /\ reqs'[r].res.status \in {401, 429}

\* C13: per client address at most ChatRateMax requests pass the chat
\* rate limiter in one window: a request that passes finds fewer than
\* ChatRateMax counted and is counted itself, the count goes down only
\* when the window ends, and once ChatRateMax are counted every further
\* request from the address is rejected before validation and before the
\* classifier.
C13_TenPerWindow ==
    [][ /\ \A r \in ReqIds :
             ChatArrival(r) =>
                LET ip == reqs'[r].req.ip IN
                /\ chatHits[ip] >= ChatRateMax => TurnedAway(r)
                /\ ~TurnedAway(r) =>
                      /\ chatHits[ip] < ChatRateMax
                      /\ chatHits'[ip] = chatHits[ip] + 1
        /\ \A ip \in DOMAIN chatHits :
             chatHits'[ip] < chatHits[ip] => \A other \in DOMAIN chatHits : chatHits'[other] = 0
      ]_vars

\* a message that fails validation is answered 429 at an address whose
\* window is full, while another address still has requests left
C13_Witness ==
    \E r \in ReqIds :
       /\ reqs[r].kind = "chat" /\ reqs[r].pc = "done"
       /\ reqs[r].res = RateLimited
       /\ chatValidationErrors(trim(reqs[r].req.body.message), reqs[r].req.body.sessionId) # {}
       /\ chatHits[reqs[r].req.ip] > ChatRateMax
       /\ \E other \in DOMAIN chatHits : chatHits[other] \in 1..(ChatRateMax - 1)

----------------------------------------------------------------------------
(* Specification of the order routes: two requests, by the orders' owner,  *)
(* by another customer and by callers without a verified token             *)

OrderHeaders ==
    {NoHeader, Bearer(ForgedToken), Bearer(CustomerToken), Bearer(VisitorToken)}

NextOrders ==
    \/ \E r \in ReqIds, h \in OrderHeaders, o \in GateOrderIds :
         GetOrder(r, h, o) /\ UNCHANGED classifierVars
    \/ \E r \in ReqIds, h \in OrderHeaders, o \in GateOrderIds :
         GetOrderStatus(r, h, o) /\ UNCHANGED classifierVars
    \/ \E r \in ReqIds, h \in OrderHeaders, o \in GateOrderIds :
         GetOrderShipping(r, h, o) /\ UNCHANGED classifierVars
    \/ \E r \in ReqIds, h \in OrderHeaders, o \in GateOrderIds :
         GetOrderModifiable(r, h, o) /\ UNCHANGED classifierVars
    \/ \E r \in ReqIds, h \in OrderHeaders, o \in GateOrderIds :
         PutOrder(r, h, o) /\ UNCHANGED classifierVars
    \/ Tick /\ UNCHANGED classifierVars
    \/ \E r \in ReqIds : Finish(r) /\ UNCHANGED classifierVars

SpecOrders == InitGate /\ [][NextOrders]_vars

----------------------------------------------------------------------------
(* C15, C16, C19: the order routes                                         *)

\* the request of frame r is for an order of the store, made with a
\* verified token of the order's owner
ByOwner(r) ==
    /\ Verified(reqs[r].req.authorization)
    /\ reqs[r].req.orderId \in DOMAIN mockOrders
    /\ mockOrders[reqs[r].req.orderId].userId = reqs[r].req.authorization.token.userId

\* C15: an order endpoint (GET /:orderId, /status, /shipping,
\* /modifiable, PUT /:orderId) answers 200 only to a request with a
\* verified token whose userId is the order's userId; every other answer
\* carries no field of an order, only an error, a message and, for an
\* unknown order, the id that was asked for.
C15_OwnOrdersOnly ==
    \A r \in ReqIds :
       reqs[r].kind \in OrderKinds =>
          /\ reqs[r].res.status = 200 => ByOwner(r)
          /\ reqs[r].res.status # 200 =>
                /\ DOMAIN reqs[r].res.body \subseteq {"error", "message", "orderId"}
                /\ reqs[r].res.status = 404 =>
                      /\ reqs[r].res.body.orderId = reqs[r].req.orderId
                      /\ reqs[r].req.orderId \notin DOMAIN mockOrders

\* the owner has the shipping data of an order while another customer
\* is refused the same order
C15_Witness ==
    \E r, q \in ReqIds :
       /\ reqs[r].kind = "orderShipping" /\ reqs[r].res.status = 200 /\ ByOwner(r)
       /\ reqs[q].kind = "orderShipping" /\ reqs[q].res.status = 403
       /\ reqs[q].req.orderId = reqs[r].req.orderId
       /\ reqs[q].req.authorization = Bearer(VisitorToken)

\* C16: GET /:orderId/modifiable reports canModify = true exactly when
\* the order's status is 'pending' or 'processing', and for the same
\* caller and order PUT /:orderId is answered 200 exactly when canModify
\* is true and 400 otherwise.
C16_ModifiableAgreesWithPut ==
    /\ \A r \in ReqIds :
          (reqs[r].kind = "orderModifiable" /\ reqs[r].res.status = 200) =>
             /\ reqs[r].res.body.canModify =
                   (mockOrders[reqs[r].req.orderId].status \in {"pending", "processing"})
             /\ reqs[r].res.body.currentStatus = mockOrders[reqs[r].req.orderId].status
    /\ \A r, q \in ReqIds :
          ( /\ reqs[r].kind = "orderModifiable" /\ reqs[r].res.status = 200
            /\ reqs[q].kind = "orderPut"
            /\ reqs[q].req = reqs[r].req ) =>
             reqs[q].res.status = IF reqs[r].res.body.canModify THEN 200 ELSE 400

\* the owner is told that the shipped order cannot be modified and the
\* PUT for it is answered 400
C16_Witness ==
    \E r, q \in ReqIds :
       /\ reqs[r].kind = "orderModifiable" /\ reqs[r].res.status = 200
       /\ ~reqs[r].res.body.canModify
       /\ reqs[q].kind = "orderPut" /\ reqs[q].req = reqs[r].req
       /\ reqs[q].res = CannotModify

----------------------------------------------------------------------------
(* Specification of the account routes: two requests in progress at once,  *)
(* registrations and logins for one address with two passwords             *)

B_email == <<"b", "@", "x", ".", "i", "o">>

AccountRegisterBodies ==
    [email : {A_Email}, password : {A_secret, A_passwd}, name : {A_name}]

AccountLoginBodies ==
    [email : {A_email, B_email}, password : {A_secret, A_passwd}]

NextAccounts ==
    \/ \E r \in ReqIds, b \in AccountRegisterBodies :
         RegisterPost(r, b) /\ UNCHANGED classifierVars
    \/ \E r \in ReqIds : RegisterResume(r) /\ UNCHANGED classifierVars
    \/ \E r \in ReqIds, b \in AccountLoginBodies :
         LoginPost(r, b) /\ UNCHANGED classifierVars
    \/ \E r \in ReqIds : LoginResume(r) /\ UNCHANGED classifierVars
    \/ Tick /\ UNCHANGED classifierVars
    \/ \E r \in ReqIds : Finish(r) /\ UNCHANGED classifierVars

SpecAccounts == Init /\ [][NextAccounts]_vars

----------------------------------------------------------------------------
(* C17, C18: registration and login                                        *)

\* in this step the registration of frame r is answered 201
Registered(r) ==
    /\ reqs[r].kind = "register" /\ reqs[r].pc = "hash"
    /\ reqs'[r].pc = "done" /\ reqs'[r].res.status = 201

\* C17: for any email at most one registration succeeds with 201, also
\* when several registrations for it are in progress at once: a
\* registration is answered 201 only when no user is stored under its
\* email, and a user record once stored is never replaced.
C17_OneRegistrationPerEmail ==
    [][ /\ \A r \in ReqIds : Registered(r) => reqs[r].email \notin DOMAIN users
        /\ \A e \in DOMAIN users : e \in DOMAIN users' /\ users'[e] = users[e]
      ]_vars

\* in this step POST /login arrives in frame r with a body that passes
\* validateLogin
LoginArrival(r) ==
    /\ reqs[r] = Idle /\ reqs'[r].kind = "login"
    /\ loginValidationErrors(reqs'[r].req) = {}

\* in this step the login of frame r is answered after bcrypt.compare
LoginAnswered(r) ==
    reqs[r].kind = "login" /\ reqs[r].pc = "compare" /\ reqs'[r].pc = "done"

\* C18: POST /login with valid input is answered 200 with a token
\* exactly when a user is stored under the given email and the given
\* password is the one that user registered with; the token carries the
\* userId and email of the user that was read from the store; every
\* other case is answered 401; no step of a login changes the users
\* store.
C18_Login ==
    [][ \A r \in ReqIds :
          /\ LoginArrival(r) =>
                LET email == normalizeEmail(reqs'[r].req.email) IN
                /\ users' = users
                /\ IF email \in DOMAIN users
                   THEN reqs'[r].pc = "compare" /\ reqs'[r].user = users[email]
                   ELSE reqs'[r].pc = "done" /\ reqs'[r].res.status = 401
          /\ LoginAnswered(r) =>
                LET user == reqs[r].user
                    res  == reqs'[r].res
                IN
                /\ users' = users
                /\ IF user.password = bcryptHash(reqs[r].req.password)
                   THEN /\ res.status = 200
                        /\ res.body.token.signature = "valid"
                        /\ res.body.token.userId = user.id
                        /\ res.body.token.email = user.email
                        /\ res.body.token \in issued'
                   ELSE /\ res.status = 401
                        /\ issued' = issued
      ]_vars

\* one login for the stored user is answered 200 with the stored user's
\* id and another, with the password that user did not register with, 401
C18_Witness ==
    \E r, q \in ReqIds :
       /\ reqs[r].kind = "login" /\ reqs[r].pc = "done" /\ reqs[r].res.status = 200
       /\ normalizeEmail(reqs[r].req.email) \in DOMAIN users
       /\ reqs[r].res.body.token.userId = users[normalizeEmail(reqs[r].req.email)].id
       /\ reqs[q].kind = "login" /\ reqs[q].pc = "done" /\ reqs[q].res.status = 401
       /\ reqs[q].req.email = reqs[r].req.email
       /\ reqs[q].req.password # reqs[r].req.password

----------------------------------------------------------------------------
(* Specification of input validation: one request at a time to the         *)
(* register, login and chat routes, with bodies that pass and bodies that  *)
(* fail the validators                                                     *)

A_noat == <<"a", ".", "i", "o">>
A_initial == <<" ", "A", " ">>

\* messages at and beyond the length limit
M_limit == [i \in 1..MaxMessageLength |-> "a"]
M_padded == W_space \o M_limit \o W_space
M_over == M_limit \o <<"a">>

InputRegisterBodies ==
    [email : {A_Email, A_noat}, password : {A_secret, A_short}, name : {A_name, A_initial}]

InputLoginBodies ==
    [email : {A_email, A_noat}, password : {A_secret, <<>>}]

InputChatBodies ==
    [message : {W_Help_me, <<>>, W_space}, sessionId : {None, "not-a-uuid"}]
      \cup [message : {M_padded, M_over}, sessionId : {None}]

InputHeaders == {NoHeader, Bearer(CustomerToken)}

NextInputs ==
    \/ \E r \in GateReqs, b \in InputRegisterBodies :
         RegisterPost(r, b) /\ UNCHANGED classifierVars
    \/ \E r \in GateReqs : RegisterResume(r) /\ UNCHANGED classifierVars
    \/ \E r \in GateReqs, b \in InputLoginBodies :
         LoginPost(r, b) /\ UNCHANGED classifierVars
    \/ \E r \in GateReqs : LoginResume(r) /\ UNCHANGED classifierVars
    \/ \E r \in GateReqs, h \in InputHeaders, ip \in IPs, b \in InputChatBodies :
         ChatPost(r, h, ip, b) /\ UNCHANGED classifierVars
    \/ \E r \in GateReqs : ChatResume(r) /\ UNCHANGED classifierVars
    \/ \E r \in GateReqs : Finish(r) /\ UNCHANGED classifierVars

SpecInputs == Init /\ [][NextInputs]_vars

----------------------------------------------------------------------------
(* C20: requests that fail validation                                      *)

\* a request arrives in frame r in this step
Arrival(r, kind) == reqs[r] = Idle /\ reqs'[r].kind = kind

\* the chat message is empty after trimming or longer than the limit
BadMessage(message) == Len(trim(message)) = 0 \/ Len(trim(message)) > 1000

\* the request that arrived is answered 400 'Validation failed' and the
\* stores and the set of issued tokens are as before
Refused(r) ==
    /\ reqs'[r].pc = "done"
    /\ reqs'[r].res.status = 400
    /\ reqs'[r].res.body.error = "Validation failed"
    /\ users' = users
    /\ issued' = issued
    /\ mockOrders' = mockOrders

----------------------------------------------------------------------------
(* C14: the example interactions of the README                             *)

\* the intent of the heading a README example stands under
ReadmeIntent(e) ==
    IF e \in ReadmeOrderStatus THEN "order_status"
    ELSE IF e \in ReadmeOrderDetails THEN "order_details"
    ELSE IF e \in ReadmeShipping THEN "shipping_info"
    ELSE "return_request"

\* C14: each example utterance of the README is classified with the
\* intent of the heading it is listed under: order_status, order_details,
\* shipping_info and return_request for the three examples of each.
C14_ReadmeExamples ==
    (Returned /\ utterance \in ReadmeExamples)
       => botResponse.intent = ReadmeIntent(utterance)

----------------------------------------------------------------------------
(* Specification of the whole server with every route: two requests in     *)
(* progress at once, by the orders' owner and by another customer          *)

StoreHeaders == {Bearer(CustomerToken), Bearer(VisitorToken)}

StoreChatBodies == {[message |-> W_Help_me, sessionId |-> None]}

StoreRegisterBodies == [email : {A_Email}, password : {A_secret}, name : {A_name}]

StoreLoginBodies == [email : {A_email}, password : {A_secret}]

NextStore ==
    \/ \E r \in ReqIds, h \in StoreHeaders, ip \in IPs, b \in StoreChatBodies :
         ChatPost(r, h, ip, b) /\ UNCHANGED classifierVars
    \/ \E r \in ReqIds : ChatResume(r) /\ UNCHANGED classifierVars
    \/ \E r \in ReqIds, h \in StoreHeaders, ip \in IPs :
         ChatHistory(r, h, ip) /\ UNCHANGED classifierVars
    \/ \E r \in ReqIds, b \in StoreRegisterBodies :
         RegisterPost(r, b) /\ UNCHANGED classifierVars
    \/ \E r \in ReqIds : RegisterResume(r) /\ UNCHANGED classifierVars
    \/ \E r \in ReqIds, b \in StoreLoginBodies :
         LoginPost(r, b) /\ UNCHANGED classifierVars
    \/ \E r \in ReqIds : LoginResume(r) /\ UNCHANGED classifierVars
    \/ \E r \in ReqIds, h \in StoreHeaders, o \in GateOrderIds :
         GetOrder(r, h, o) /\ UNCHANGED classifierVars
    \/ \E r \in ReqIds, h \in StoreHeaders, o \in GateOrderIds :
         GetOrderStatus(r, h, o) /\ UNCHANGED classifierVars
    \/ \E r \in ReqIds, h \in StoreHeaders, o \in GateOrderIds :
         GetOrderShipping(r, h, o) /\ UNCHANGED classifierVars
    \/ \E r \in ReqIds, h \in StoreHeaders, o \in GateOrderIds :
         GetOrderModifiable(r, h, o) /\ UNCHANGED classifierVars
    \/ \E r \in ReqIds, h \in StoreHeaders, o \in GateOrderIds :
         PutOrder(r, h, o) /\ UNCHANGED classifierVars
    \/ \E r \in ReqIds : Finish(r) /\ UNCHANGED classifierVars

SpecStore == Init /\ [][NextStore]_vars

----------------------------------------------------------------------------
(* C21, C22: the order store and the shipping address                      *)

\* C21: the order store is read-only: after any sequence of requests to
\* any endpoint, GET /:orderId with its masked street and PUT /:orderId
\* included, the set of orders and every field of every stored order are
\* as they were when the module was loaded.
C21_OrderStoreReadOnly == mockOrders = MockOrderData

\* the owner has an order with its street masked in the response and a
\* PUT for the order in processing has been accepted
C21_Witness ==
    \E r, q \in ReqIds :
       /\ reqs[r].kind = "order" /\ reqs[r].res.status = 200
       /\ reqs[r].res.body.order.shippingAddress.street
             # mockOrders[reqs[r].req.orderId].shippingAddress.street
       /\ reqs[q].kind = "orderPut" /\ reqs[q].res.status = 200

\* the shipping address a 200 response of frame r carries
AddressIn(r) ==
    IF reqs[r].kind = "order" THEN reqs[r].res.body.order.shippingAddress
    ELSE reqs[r].res.body.shippingAddress

\* C22: every order response that includes the shipping address
\* (GET /:orderId and GET /:orderId/shipping) has the street number
\* replaced by '***', so no endpoint discloses the street as it is stored.
C22_AddressMasked ==
    \A r \in ReqIds :
       (reqs[r].kind \in {"order", "orderShipping"} /\ reqs[r].res.status = 200) =>
          LET stored == mockOrders[reqs[r].req.orderId].shippingAddress.street IN
          /\ AddressIn(r).street = maskStreet(stored)
          /\ AddressIn(r).street # stored

=============================================================================
